---- MODULE Spec2Model ----
(***************************************************************************)
(* A model of github-analyzer.ts: the command line of main, the           *)
(* orchestrator GitHubRepoAnalyzer.analyzeRepositories, the tree walker   *)
(* getAllFiles, the pattern matcher findMatchingFiles, the prober         *)
(* analyzeRepository and the reporter generateReport.                     *)
(*                                                                         *)
(* A JavaScript string is a sequence of one-character strings, so that    *)
(* parseInt, the regular expressions, startsWith, includes, split and     *)
(* replace are computed character by character as the code computes them. *)
(* An optional value (null, undefined, NaN) is the empty sequence and a   *)
(* present value v is <<v>>.                                              *)
(***************************************************************************)
EXTENDS Integers, Sequences, FiniteSets, TLC

\* ------------------------------------------------------------------ bounds

\* The longest argument list main is started with.
MaxArgs == 3
\* The most repositories the search returns.
MaxRepos == 2
\* The most files a cloned repository holds.
MaxFiles == 2

\* ------------------------------------------------------- program constants

\* The limit main uses when none is given.
DefaultLimit == 10
\* The number of trailing path segments findMatchingFiles joins into relativePath.
RelativeParts == 3
\* The number of matching files generateReport lists.
ListedFiles == 10
\* The number of file types generateReport lists.
TopTypes == 5
\* The radixes parseInt chooses between.
Decimal == 10
Hex == 16

None == <<>>
Some(v) == <<v>>

\* The element of a one-element set. { e(x) : x \in {v} } binds x to the value of v
\* once, however often e uses it.
The(S) == CHOOSE x \in S : TRUE

\* ----------------------------------------------------------------- strings

UpperChars == <<"A","B","C","D","E","F","G","H","I","J","K","L","M",
                "N","O","P","Q","R","S","T","U","V","W","X","Y","Z">>
LowerChars == <<"a","b","c","d","e","f","g","h","i","j","k","l","m",
                "n","o","p","q","r","s","t","u","v","w","x","y","z">>

LowerOf == [k \in DOMAIN UpperChars |-> LowerChars[k]]
UpperSet == {UpperChars[k] : k \in DOMAIN UpperChars}
UpperIndex == [c \in UpperSet |-> CHOOSE k \in DOMAIN UpperChars : UpperChars[k] = c]

ToLowerChar(c) == IF c \in UpperSet THEN LowerOf[UpperIndex[c]] ELSE c

\* String.prototype.toLowerCase
ToLowerCase(s) == [k \in DOMAIN s |-> ToLowerChar(s[k])]

\* String.prototype.startsWith
StartsWith(s, prefix) ==
  /\ Len(prefix) <= Len(s)
  /\ SubSeq(s, 1, Len(prefix)) = prefix

\* String.prototype.includes
Includes(s, needle) ==
  \E k \in 0..(Len(s) - Len(needle)) : SubSeq(s, k + 1, k + Len(needle)) = needle

\* The position of the first occurrence of needle in s, 0 when there is none.
IndexOf(s, needle) ==
  IF Includes(s, needle)
  THEN 1 + CHOOSE k \in 0..(Len(s) - Len(needle)) :
             /\ SubSeq(s, k + 1, k + Len(needle)) = needle
             /\ \A j \in 0..(k - 1) : SubSeq(s, j + 1, j + Len(needle)) # needle
  ELSE 0

\* String.prototype.replace with a string pattern: only the first occurrence.
ReplaceFirst(s, needle, with) ==
  LET at == IndexOf(s, needle)
  IN IF at = 0 THEN s
     ELSE SubSeq(s, 1, at - 1) \o with \o SubSeq(s, at + Len(needle), Len(s))

\* replace(/^\//, '')
StripLeadingSlash(s) ==
  IF Len(s) > 0 /\ s[1] = "/" THEN Tail(s) ELSE s

\* String.prototype.split(path.sep)
Split(s) ==
  LET RECURSIVE Go(_, _, _)
      Go(k, cur, acc) ==
        IF k > Len(s) THEN Append(acc, cur)
        ELSE IF s[k] = "/" THEN Go(k + 1, <<>>, Append(acc, cur))
        ELSE Go(k + 1, Append(cur, s[k]), acc)
  IN Go(1, <<>>, <<>>)

\* Array.prototype.join('/')
Join(parts) ==
  LET RECURSIVE Go(_)
      Go(k) == IF k > Len(parts) THEN <<>>
               ELSE IF k = 1 THEN parts[1] \o Go(2)
               ELSE <<"/">> \o parts[k] \o Go(k + 1)
  IN Go(1)

\* slice(n) in place of slice(-n): the parts after the first n.
LastParts_FromStart(parts, n) ==
  IF Len(parts) <= n THEN <<>> ELSE SubSeq(parts, n + 1, Len(parts))

\* Array.prototype.slice(-n)
LastParts(parts, n) ==
  IF Len(parts) <= n THEN parts ELSE SubSeq(parts, Len(parts) - n + 1, Len(parts))

\* path.join(dir, file) of a directory and one entry name
PathJoin(dir, file) == dir \o <<"/">> \o file

\* path.basename
Basename(file) == LET parts == Split(file) IN parts[Len(parts)]

\* The position of the last "." of s, 0 when there is none.
LastDot(s) ==
  IF \E k \in DOMAIN s : s[k] = "."
  THEN CHOOSE k \in DOMAIN s : s[k] = "." /\ \A j \in (k + 1)..Len(s) : s[j] # "."
  ELSE 0

\* path.extname: from the last "." of the base name, "" when there is none or
\* when the base name only starts with it
Extname(file) ==
  LET base == Basename(file)
      dot == LastDot(base)
  IN IF dot <= 1 THEN <<>> ELSE SubSeq(base, dot, Len(base))

\* ----------------------------------------------------------------- parseInt

DigitChars == <<"0","1","2","3","4","5","6","7","8","9","a","b","c","d","e","f">>

\* The value of c as a digit of the radix, -1 when it is none.
DigitValue(c, radix) ==
  LET low == ToLowerChar(c)
  IN IF \E k \in 1..radix : DigitChars[k] = low
     THEN (CHOOSE k \in 1..radix : DigitChars[k] = low) - 1
     ELSE -1

IsWhiteSpace(c) == c \in {" ", "\t", "\n", "\r"}

\* /^\d+$/
AllDigits(s) ==
  /\ Len(s) > 0
  /\ \A k \in DOMAIN s : DigitValue(s[k], Decimal) >= 0 /\ s[k] = ToLowerChar(s[k])

\* parseInt(s) without a radix: leading white space is dropped, one sign is read, a
\* 0x or 0X prefix selects radix 16, and the longest prefix of digits is the value;
\* no digit at all is NaN (None).
ParseInt(s) ==
  LET RECURSIVE SkipSpace(_)
      SkipSpace(k) == IF k <= Len(s) /\ IsWhiteSpace(s[k]) THEN SkipSpace(k + 1) ELSE k
      first == SkipSpace(1)
      signed == first <= Len(s) /\ s[first] \in {"+", "-"}
      negative == signed /\ s[first] = "-"
      afterSign == IF signed THEN first + 1 ELSE first
      isHex == /\ afterSign + 1 <= Len(s)
               /\ s[afterSign] = "0"
               /\ s[afterSign + 1] \in {"x", "X"}
      radix == IF isHex THEN Hex ELSE Decimal
      start == IF isHex THEN afterSign + 2 ELSE afterSign
      RECURSIVE Digits(_, _, _)
      Digits(k, seen, acc) ==
        IF k <= Len(s) /\ DigitValue(s[k], radix) >= 0
        THEN Digits(k + 1, TRUE, acc * radix + DigitValue(s[k], radix))
        ELSE IF seen THEN Some(IF negative THEN 0 - acc ELSE acc) ELSE None
  IN Digits(start, FALSE, 0)

\* ------------------------------------------------------ regular expressions

\* pattern.replace(/\*/g, '.*')
GlobToRegexSource(pattern) ==
  LET RECURSIVE Go(_)
      Go(k) == IF k > Len(pattern) THEN <<>>
               ELSE IF pattern[k] = "*" THEN <<".", "*">> \o Go(k + 1)
               ELSE <<pattern[k]>> \o Go(k + 1)
  IN Go(1)

\* The characters of a pattern source that new RegExp reads as syntax and that the
\* model reads: "." (any character), "*" (the atom before it, any number of times)
\* and "(" (a group; with no ")" in the model's patterns it is never closed).
\* Every other character of the model's patterns is a literal.

\* new RegExp(source, 'i'): the atoms of the expression, or a SyntaxError.
\* A "(" is an unterminated group; a "*" with no atom before it has nothing to repeat.
RegExpCompile(source) ==
  LET RECURSIVE Go(_, _)
      Go(k, atoms) ==
        IF k > Len(source) THEN [ok |-> TRUE, atoms |-> atoms]
        ELSE IF source[k] = "(" \/ source[k] = "*" THEN [ok |-> FALSE, atoms |-> <<>>]
        ELSE LET starred == k + 1 <= Len(source) /\ source[k + 1] = "*"
                 atom == [any |-> source[k] = ".", ch |-> source[k], star |-> starred]
             IN Go(IF starred THEN k + 2 ELSE k + 1, Append(atoms, atom))
  IN Go(1, <<>>)

IsLineTerminator(c) == c \in {"\n", "\r"}

\* One atom against one character, ignoring case (the i flag).
AtomMatches(atom, c) ==
  IF atom.any THEN ~IsLineTerminator(c)
  ELSE ToLowerChar(atom.ch) = ToLowerChar(c)

\* RegExp.prototype.test: the expression matches somewhere in s (it is not anchored).
\* An expression that begins with ".*" matches from a later position only if it
\* matches from the first, unless a line terminator lies between: then the first
\* position is the only one tried.
RegExpTest(atoms, s) ==
  LET RECURSIVE MatchAt(_, _)
      MatchAt(k, i) ==
        IF k > Len(atoms) THEN TRUE
        ELSE IF atoms[k].star
        THEN \/ MatchAt(k + 1, i)
             \/ /\ i <= Len(s)
                /\ AtomMatches(atoms[k], s[i])
                /\ MatchAt(k, i + 1)
        ELSE /\ i <= Len(s)
             /\ AtomMatches(atoms[k], s[i])
             /\ MatchAt(k + 1, i + 1)
      starts == IF /\ Len(atoms) > 0
                      /\ atoms[1].star
                      /\ atoms[1].any
                      /\ \A k \in DOMAIN s : ~IsLineTerminator(s[k])
                THEN {1}
                ELSE 1..(Len(s) + 1)
  IN \E start \in starts : MatchAt(1, start)

\* -------------------------------------------------------------- file system

\* A cloned repository's tree is the set of its files, each the sequence of entry
\* names from the clone's root down to the file; its directories are the proper
\* prefixes of its files.
IsDirectory(tree, segs) ==
  \E f \in tree : Len(f) > Len(segs) /\ SubSeq(f, 1, Len(segs)) = segs

\* The entry names of the model's trees, in the order a directory lists them.
N_src == <<"s","r","c">>
N_node_modules == <<"n","o","d","e","_","m","o","d","u","l","e","s">>
N_github == <<".","g","i","t","h","u","b">>
N_dzsh == <<"d",".","z","s","h">>
N_gitignore == <<".","g","i","t","i","g","n","o","r","e">>
N_readme == <<"R","E","A","D","M","E",".","m","d">>
N_azsh == <<"a",".","z","s","h">>
N_bzshrc == <<"b",".","z","s","h","r","c">>

DirNames == <<N_github, N_dzsh, N_node_modules, N_src>>
FileNames == <<N_gitignore, N_readme, N_azsh, N_bzshrc>>
ListingOrder == DirNames \o FileNames

\* fs.readdirSync(dir): the names of the directory's entries
Readdir(tree, segs) ==
  SelectSeq(ListingOrder, LAMBDA n :
    \E f \in tree : Len(f) > Len(segs) /\ SubSeq(f, 1, Len(segs) + 1) = Append(segs, n))

\* The path string of the directory segs below root.
DirString(root, segs) ==
  LET RECURSIVE Go(_)
      Go(k) == IF k > Len(segs) THEN <<>> ELSE <<"/">> \o segs[k] \o Go(k + 1)
  IN root \o Go(1)

\* ------------------------------------------------------------- tree walker

\* A walker that skips only the directory named exactly .git.
ShouldDescend_ExactGit(file) ==
  /\ file # <<".","g","i","t">>
  /\ file # N_node_modules

\* The test getAllFiles makes of a directory's name before it descends into it.
ShouldDescend(file) ==
  /\ ~StartsWith(file, <<".","g","i","t">>)
  /\ file # N_node_modules

\* getAllFiles(dir, fileList), with dir the directory segs below root; every
\* readdirSync and statSync of the walk succeeds (a failing one throws out of it).
RECURSIVE GetAllFiles(_, _, _, _)
GetAllFiles(tree, root, segs, fileList) ==
  LET files == Readdir(tree, segs)
      dir == DirString(root, segs)
      RECURSIVE Each(_, _)
      Each(k, acc) ==
        IF k > Len(files) THEN acc
        ELSE LET file == files[k]
                 filePath == PathJoin(dir, file)
             IN IF IsDirectory(tree, Append(segs, file))
                THEN IF ShouldDescend(file)
                     THEN Each(k + 1, GetAllFiles(tree, root, Append(segs, file), acc))
                     ELSE Each(k + 1, acc)
                ELSE Each(k + 1, Append(acc, filePath))
  IN Each(1, fileList)

\* ----------------------------------------------------------- pattern matcher

\* The callback of patterns.some for one pattern: whether it matches the file's
\* base name or relative path, or throws (new RegExp's SyntaxError).
PatternMatches(pattern, basename, relativePath) ==
  IF Includes(pattern, <<"*">>)
  THEN The({ IF ~regex.ok THEN [threw |-> TRUE, value |-> FALSE]
             ELSE [threw |-> FALSE,
                   value |-> \/ RegExpTest(regex.atoms, basename)
                             \/ RegExpTest(regex.atoms, relativePath)] :
             regex \in {RegExpCompile(GlobToRegexSource(pattern))} })
  ELSE [threw |-> FALSE,
        value |-> \/ Includes(ToLowerCase(basename), ToLowerCase(pattern))
                  \/ Includes(ToLowerCase(relativePath), ToLowerCase(pattern))]

\* The callback of files.filter for one file: patterns.some stops at the first
\* pattern that matches, and a pattern that throws ends it.
FileMatches(file, patterns) ==
  LET RECURSIVE Some_(_, _, _)
      Some_(k, basename, relativePath) ==
        IF k > Len(patterns) THEN [threw |-> FALSE, value |-> FALSE]
        ELSE LET r == PatternMatches(patterns[k], basename, relativePath)
             IN IF r.threw \/ r.value THEN r ELSE Some_(k + 1, basename, relativePath)
  IN The({ Some_(1, basename, relativePath) :
           basename \in {Basename(file)},
           relativePath \in {Join(LastParts(Split(file), RelativeParts))} })

\* findMatchingFiles(files, patterns): the files that match, in order, or the throw.
FindMatchingFiles(files, patterns) ==
  LET RECURSIVE Filter(_, _)
      Filter(k, acc) ==
        IF k > Len(files) THEN [threw |-> FALSE, files |-> acc]
        ELSE LET r == FileMatches(files[k], patterns)
             IN IF r.threw THEN [threw |-> TRUE, files |-> <<>>]
                ELSE Filter(k + 1, IF r.value THEN Append(acc, files[k]) ELSE acc)
  IN Filter(1, <<>>)

\* ------------------------------------------------------------------ prober

E_fs == <<"E","N","O","E","N","T">>
E_regexp == <<"S","y","n","t","a","x","E","r","r","o","r">>
NoExtension == <<"n","o","-","e","x","t","e","n","s","i","o","n">>
PackageJson == <<"p","a","c","k","a","g","e",".","j","s","o","n">>

\* analysis.fileTypes[key] = (analysis.fileTypes[key] || 0) + 1 over the files: the
\* keys in the order they were first inserted, each with its count.
FileTypes(files) ==
  LET KeyOf(file) ==
        LET ext == ToLowerCase(Extname(file)) IN IF ext = <<>> THEN NoExtension ELSE ext
      Bump(hist, key) ==
        IF \E k \in DOMAIN hist : hist[k].ext = key
        THEN [k \in DOMAIN hist |->
               IF hist[k].ext = key THEN [hist[k] EXCEPT !.count = @ + 1] ELSE hist[k]]
        ELSE Append(hist, [ext |-> key, count |-> 1])
      RECURSIVE Go(_, _)
      Go(k, hist) == IF k > Len(files) THEN hist ELSE Go(k + 1, Bump(hist, KeyOf(files[k])))
  IN Go(1, <<>>)

\* The first element of a sequence as an optional value.
FirstOf(seq) == IF Len(seq) > 0 THEN Some(seq[1]) ELSE None

\* f.replace(root, '').replace(/^\//, '')
RelativeTo(root, f) == StripLeadingSlash(ReplaceFirst(f, root, <<>>))

\* The file-system calls of the probe that can throw: "walk" (getAllFiles), "stat"
\* (statSync of a matching file), "readdir" (the top-level listing); with "none" no call throws.
FailPoints == {"none", "walk", "stat", "readdir"}

\* analyzeRepository(repoPath, repo, filePatterns): the analysis it returns, for each
\* call of the probe that may throw. packageData and the files' sizes are left out:
\* the model's files have no content.
AnalyzeRepository(tree, repoPath, filePatterns) ==
  LET analysis0 == [totalFiles |-> 0, fileTypes |-> <<>>, structure |-> <<>>,
                    readme |-> None, packageJson |-> None, specialFiles |-> <<>>,
                    error |-> None]
      Probe(allFiles, matching) ==
        LET readmeFiles == SelectSeq(allFiles, LAMBDA f :
                             Includes(ToLowerCase(Basename(f)), <<"r","e","a","d","m","e">>))
            packageJsonFiles == SelectSeq(allFiles, LAMBDA f : Basename(f) = PackageJson)
            analysis1 == [analysis0 EXCEPT !.totalFiles = Len(allFiles),
                                           !.fileTypes = FileTypes(allFiles),
                                           !.readme = FirstOf(readmeFiles),
                                           !.packageJson = FirstOf(packageJsonFiles)]
            analysis2 == [analysis1 EXCEPT !.specialFiles =
                            [k \in DOMAIN matching.files |->
                              RelativeTo(repoPath, matching.files[k])]]
            topLevelItems == Readdir(tree, <<>>)
            analysis3 == [analysis2 EXCEPT !.structure =
                            [k \in DOMAIN topLevelItems |->
                              [item |-> topLevelItems[k],
                               kind |-> IF IsDirectory(tree, <<topLevelItems[k]>>)
                                        THEN "directory" ELSE "file"]]]
        IN [failAt \in FailPoints |->
             IF failAt = "walk" THEN [analysis0 EXCEPT !.error = Some(E_fs)]
             ELSE IF matching.threw THEN [analysis1 EXCEPT !.error = Some(E_regexp)]
             ELSE IF failAt = "stat" /\ Len(matching.files) > 0
                  THEN [analysis1 EXCEPT !.error = Some(E_fs)]
             ELSE IF failAt = "readdir" THEN [analysis2 EXCEPT !.error = Some(E_fs)]
             ELSE analysis3]
  IN The({ The({ Probe(allFiles, matching) :
                 matching \in {FindMatchingFiles(allFiles, filePatterns)} }) :
           allFiles \in {GetAllFiles(tree, repoPath, <<>>, <<>>)} })

\* ---------------------------------------------------------------- reporter

Line(kind, entry, num, text) == [kind |-> kind, entry |-> entry, num |-> num, text |-> text]

\* Array.prototype.sort by descending count; the sort is stable.
SortByCount(hist) ==
  LET RECURSIVE Insert(_, _)
      Insert(sorted, e) ==
        IF Len(sorted) = 0 THEN <<e>>
        ELSE IF sorted[Len(sorted)].count >= e.count THEN Append(sorted, e)
        ELSE Append(Insert(SubSeq(sorted, 1, Len(sorted) - 1), e), sorted[Len(sorted)])
      RECURSIVE Go(_, _)
      Go(k, sorted) == IF k > Len(hist) THEN sorted ELSE Go(k + 1, Insert(sorted, hist[k]))
  IN Go(1, <<>>)

\* Array.prototype.slice(0, n)
FirstParts(seq, n) == IF Len(seq) <= n THEN seq ELSE SubSeq(seq, 1, n)

\* A reporter that adds the error line and goes on to the statistics.
ReportEntry_NoEarlyReturn(result, index) ==
  LET repo == result.repo
      analysis == result.analysis
  IN << Line("heading", index, 0, repo.owner \o <<"/">> \o repo.name),
        Line("description", index, 0, repo.description),
        Line("stars", index, repo.stars, repo.language),
        Line("url", index, 0, repo.url) >>
     \o (IF analysis.error # None THEN <<Line("error", index, 0, analysis.error[1])>> ELSE <<>>)
     \o << Line("files", index, analysis.totalFiles, <<>>),
           Line("matching", index, Len(result.matchingFiles), <<>>),
           Line("rule", index, 0, <<>>) >>

\* The lines generateReport adds for the result at position index.
ReportEntry(result, index) ==
  LET repo == result.repo
      matchingFiles == result.matchingFiles
      analysis == result.analysis
      head == << Line("heading", index, 0, repo.owner \o <<"/">> \o repo.name),
                 Line("description", index, 0, repo.description),
                 Line("stars", index, repo.stars, repo.language),
                 Line("url", index, 0, repo.url) >>
      listed == FirstParts(matchingFiles, ListedFiles)
      matchingLines ==
        IF Len(matchingFiles) > 0
        THEN <<Line("matchingHeader", index, 0, <<>>)>>
             \o [k \in DOMAIN listed |-> Line("matchingFile", index, 0, listed[k])]
             \o (IF Len(matchingFiles) > ListedFiles
                 THEN <<Line("more", index, Len(matchingFiles) - ListedFiles, <<>>)>>
                 ELSE <<>>)
        ELSE <<>>
      topTypes == FirstParts(SortByCount(analysis.fileTypes), TopTypes)
      typeLines ==
        IF Len(topTypes) > 0
        THEN <<Line("typesHeader", index, 0, <<>>)>>
             \o [k \in DOMAIN topTypes |->
                  Line("type", index, topTypes[k].count, topTypes[k].ext)]
        ELSE <<>>
  IN IF analysis.error # None /\ analysis.error[1] # <<>>
     THEN head \o <<Line("error", index, 0, analysis.error[1])>>
     ELSE head
          \o << Line("files", index, analysis.totalFiles, <<>>),
                Line("matching", index, Len(matchingFiles), <<>>) >>
          \o matchingLines \o typeLines
          \o <<Line("rule", index, 0, <<>>)>>

\* generateReport(): the lines of the report over this.results (the time of the
\* "Generated on" line is left out).
GenerateReport(res) ==
  LET RECURSIVE Go(_)
      Go(k) == IF k > Len(res) THEN <<>> ELSE ReportEntry(res[k], k) \o Go(k + 1)
  IN << Line("title", 0, 0, <<>>),
        Line("generated", 0, 0, <<>>),
        Line("total", 0, Len(res), <<>>) >> \o Go(1)

\* ------------------------------------------------------------ command line

S_limit == <<"-","-","l","i","m","i","t">>
S_help == <<"-","-","h","e","l","p">>

\* A main that looks for --help in the first argument only.
WantsUsage_FirstOnly(argv) == IF Len(argv) = 0 THEN TRUE ELSE argv[1] = S_help

\* args.length === 0 || args.includes('--help')
WantsUsage(argv) == Len(argv) = 0 \/ \E k \in DOMAIN argv : argv[k] = S_help

\* args.findIndex(arg => arg === '--limit'), counted from 1; 0 when there is none
LimitIndex(argv) ==
  IF \E k \in DOMAIN argv : argv[k] = S_limit
  THEN CHOOSE k \in DOMAIN argv : argv[k] = S_limit /\ \A j \in 1..(k - 1) : argv[j] # S_limit
  ELSE 0

\* limitIndex !== -1 && args[limitIndex + 1] ? parseInt(args[limitIndex + 1]) : 10
\* (a missing or empty argument is falsy; NaN is None)
ParseLimit(argv) ==
  LET limitIndex == LimitIndex(argv)
  IN IF limitIndex # 0 /\ limitIndex + 1 <= Len(argv) /\ argv[limitIndex + 1] # <<>>
     THEN ParseInt(argv[limitIndex + 1])
     ELSE Some(DefaultLimit)

\* args.slice(1).filter(arg => arg !== '--limit' && !arg.match(/^\d+$/))
ParseFilePatterns(argv) ==
  SelectSeq(Tail(argv), LAMBDA arg : arg # S_limit /\ ~AllDigits(arg))

\* ------------------------------------------------------------------- state

VARIABLES
  args,          \* process.argv.slice(2)
  remote,        \* the repositories the search finds, in its order, each with the tree a clone of it holds
  pc,            \* the position of main
  stdout,        \* what main has printed: "usage", "failed", or a report
  query,         \* main's query
  filePatterns,  \* main's filePatterns
  limit,         \* main's limit (None is NaN)
  tempDir,       \* the analyzer's tempDir, None before the analyzer is constructed
  disk,          \* the clones on disk: their paths and trees
  repos,         \* analyzeRepositories' repos
  i,             \* the position of the for loop over repos
  localPath,     \* the loop body's localPath
  allFiles,      \* the loop body's allFiles
  matchingFiles, \* the loop body's matchingFiles
  results,       \* this.results
  repoState,     \* for each repository of repos, how far the loop has taken it
  log,           \* the steps taken so far: the external commands and the calls of the loop body
  reportFile     \* the report file written, None before

vars == << args, remote, pc, stdout, query, filePatterns, limit, tempDir, disk, repos, i,
           localPath, allFiles, matchingFiles, results, repoState, log, reportFile >>

\* path.join(os.tmpdir(), 'github-analysis-' + Date.now())
TempDir == <<"/","t","m","p","/","g","i","t","h","u","b","-","a","n","a","l","y","s","i","s","-","1">>

Unknown == <<"U","n","k","n","o","w","n">>
UrlBase == <<"h","t","t","p","s",":","/","/","g","i","t","h","u","b",".","c","o","m","/">>

\* One record of the search's JSON output to a RepoInfo.
ToRepoInfo(raw) ==
  [name |-> raw.name,
   owner |-> IF raw.owner.login # None /\ raw.owner.login[1] # <<>>
             THEN raw.owner.login[1] ELSE raw.owner.text[1],
   url |-> raw.url,
   description |-> IF raw.description = None THEN <<>> ELSE raw.description[1],
   stars |-> IF raw.stargazersCount = None THEN 0 ELSE raw.stargazersCount[1],
   language |-> IF raw.language = None \/ raw.language = Some(<<>>)
                THEN Unknown ELSE raw.language[1]]

\* What `gh search repos --limit n` prints for a limit it accepts: the first n of
\* the repositories found. It rejects NaN and a limit below 1 (a non-zero exit).
SearchOutput(lim) ==
  [k \in 1..(IF Len(remote) <= lim THEN Len(remote) ELSE lim) |-> remote[k].raw]

\* One step of the log: the call, the repository's position (0 for the search),
\* whether it returned without an error, and for a probe the call that failed.
Step(op, repo, ok, at) == [op |-> op, repo |-> repo, ok |-> ok, at |-> at]

\* The tree of the clone at path.
TreeAt(path) == (CHOOSE d \in disk : d.path = path).tree

\* The for loop moves to the next repository, or analyzeRepositories returns.
NextRepo ==
  /\ i' = i + 1
  /\ pc' = IF i + 1 > Len(repos) THEN "report" ELSE "clone"
  /\ localPath' = <<>>
  /\ allFiles' = <<>>
  /\ matchingFiles' = <<>>

\* main, no arguments or --help: the usage text is printed and main returns.
ShowUsage ==
  /\ pc = "start"
  /\ WantsUsage(args)
  /\ stdout' = Append(stdout, "usage")
  /\ pc' = "done"
  /\ UNCHANGED << args, remote, query, filePatterns, limit, tempDir, disk, repos, i,
                  localPath, allFiles, matchingFiles, results, repoState, log, reportFile >>

\* main: the arguments are read and the analyzer is constructed.
StartAnalysis ==
  /\ pc = "start"
  /\ ~WantsUsage(args)
  /\ limit' = ParseLimit(args)
  /\ query' = args[1]
  /\ filePatterns' = ParseFilePatterns(args)
  /\ tempDir' = Some(TempDir)
  /\ pc' = "search"
  /\ UNCHANGED << args, remote, stdout, disk, repos, i, localPath, allFiles,
                  matchingFiles, results, repoState, log, reportFile >>

\* A search whose error is swallowed: the run goes on with no repositories.
SearchFails_Swallowed ==
  /\ pc = "search"
  /\ log' = Append(log, Step("search", 0, FALSE, "none"))
  /\ pc' = "report"
  /\ UNCHANGED << args, remote, stdout, query, filePatterns, limit, tempDir, disk, repos, i,
                  localPath, allFiles, matchingFiles, results, repoState, reportFile >>

\* searchRepositories throws (gh exits non-zero, or its output does not parse):
\* analyzeRepositories rethrows, main prints the failure and returns.
SearchFails ==
  /\ pc = "search"
  /\ log' = Append(log, Step("search", 0, FALSE, "none"))
  /\ stdout' = Append(stdout, "failed")
  /\ pc' = "done"
  /\ UNCHANGED << args, remote, query, filePatterns, limit, tempDir, disk, repos, i,
                  localPath, allFiles, matchingFiles, results, repoState, reportFile >>

\* searchRepositories returns the repositories found.
SearchSucceeds ==
  /\ pc = "search"
  /\ limit # None
  /\ limit[1] >= 1
  /\ LET output == SearchOutput(limit[1])
     IN /\ repos' = [k \in DOMAIN output |-> ToRepoInfo(output[k])]
        /\ repoState' = [k \in DOMAIN output |-> "Pending"]
        /\ pc' = IF Len(output) = 0 THEN "report" ELSE "clone"
  /\ i' = 1
  /\ log' = Append(log, Step("search", 0, TRUE, "none"))
  /\ UNCHANGED << args, remote, stdout, query, filePatterns, limit, tempDir, disk,
                  localPath, allFiles, matchingFiles, results, reportFile >>

\* cloneRepository(repo): git clone succeeds, into a path that holds nothing yet.
CloneSucceeds ==
  /\ pc = "clone"
  /\ LET repo == repos[i]
         repoPath == PathJoin(tempDir[1], repo.owner \o <<"-">> \o repo.name)
     IN /\ \A d \in disk : d.path # repoPath
        /\ disk' = disk \cup {[path |-> repoPath, tree |-> remote[i].tree]}
        /\ localPath' = repoPath
  /\ repoState' = [repoState EXCEPT ![i] = "Cloned"]
  /\ log' = Append(log, Step("clone", i, TRUE, "none"))
  /\ pc' = "walk"
  /\ UNCHANGED << args, remote, stdout, query, filePatterns, limit, tempDir, repos, i,
                  allFiles, matchingFiles, results, reportFile >>

\* A loop body without its catch: the clone's error leaves analyzeRepositories.
CloneFails_Abort ==
  /\ pc = "clone"
  /\ repoState' = [repoState EXCEPT ![i] = "Failed"]
  /\ log' = Append(log, Step("clone", i, FALSE, "none"))
  /\ stdout' = Append(stdout, "failed")
  /\ pc' = "done"
  /\ UNCHANGED << args, remote, query, filePatterns, limit, tempDir, disk, repos, i,
                  localPath, allFiles, matchingFiles, results, reportFile >>

\* cloneRepository(repo) throws (git exits non-zero or times out): the loop body's
\* catch logs it and the loop goes on.
CloneFails ==
  /\ pc = "clone"
  /\ repoState' = [repoState EXCEPT ![i] = "Failed"]
  /\ log' = Append(log, Step("clone", i, FALSE, "none"))
  /\ NextRepo
  /\ UNCHANGED << args, remote, stdout, query, filePatterns, limit, tempDir, disk, repos,
                  results, reportFile >>

\* getAllFiles(localPath) returns the clone's files.
WalkSucceeds ==
  /\ pc = "walk"
  /\ allFiles' = GetAllFiles(TreeAt(localPath), localPath, <<>>, <<>>)
  /\ repoState' = [repoState EXCEPT ![i] = "Walked"]
  /\ log' = Append(log, Step("walk", i, TRUE, "none"))
  /\ pc' = "match"
  /\ UNCHANGED << args, remote, stdout, query, filePatterns, limit, tempDir, disk, repos, i,
                  localPath, matchingFiles, results, reportFile >>

\* A loop body without its catch: the walk's error leaves analyzeRepositories.
WalkFails_Abort ==
  /\ pc = "walk"
  /\ repoState' = [repoState EXCEPT ![i] = "Failed"]
  /\ log' = Append(log, Step("walk", i, FALSE, "none"))
  /\ stdout' = Append(stdout, "failed")
  /\ pc' = "done"
  /\ UNCHANGED << args, remote, query, filePatterns, limit, tempDir, disk, repos, i,
                  localPath, allFiles, matchingFiles, results, reportFile >>

\* getAllFiles(localPath) throws (a readdirSync or statSync of the walk fails): the
\* loop body's catch logs it and the loop goes on.
WalkFails ==
  /\ pc = "walk"
  /\ repoState' = [repoState EXCEPT ![i] = "Failed"]
  /\ log' = Append(log, Step("walk", i, FALSE, "none"))
  /\ NextRepo
  /\ UNCHANGED << args, remote, stdout, query, filePatterns, limit, tempDir, disk, repos,
                  results, reportFile >>

\* findMatchingFiles(allFiles, filePatterns) in the loop body.
MatchFiles ==
  /\ pc = "match"
  /\ \E found \in {FindMatchingFiles(allFiles, filePatterns)} :
        IF found.threw
        THEN /\ repoState' = [repoState EXCEPT ![i] = "Failed"]
             /\ log' = Append(log, Step("match", i, FALSE, "none"))
             /\ NextRepo
        ELSE /\ matchingFiles' = found.files
             /\ log' = Append(log, Step("match", i, TRUE, "none"))
             /\ pc' = "probe"
             /\ UNCHANGED << repoState, i, localPath, allFiles >>
  /\ UNCHANGED << args, remote, stdout, query, filePatterns, limit, tempDir, disk, repos,
                  results, reportFile >>

\* A result whose matchingFiles keep their absolute paths.
AnalysisResult_AbsoluteMatching(repo, path, files, matching, analysis) ==
  [repo |-> repo,
   localPath |-> path,
   files |-> [k \in DOMAIN files |-> RelativeTo(path, files[k])],
   matchingFiles |-> matching,
   analysis |-> analysis]

\* The AnalysisResult the loop body pushes.
AnalysisResult(repo, path, files, matching, analysis) ==
  [repo |-> repo,
   localPath |-> path,
   files |-> [k \in DOMAIN files |-> RelativeTo(path, files[k])],
   matchingFiles |-> [k \in DOMAIN matching |-> RelativeTo(path, matching[k])],
   analysis |-> analysis]

\* analyzeRepository(localPath, repo, filePatterns) and this.results.push(...).
ProbeAndPush ==
  /\ pc = "probe"
  /\ \E probe \in {AnalyzeRepository(TreeAt(localPath), localPath, filePatterns)} :
       \E failAt \in FailPoints :
          /\ results' = Append(results,
               AnalysisResult(repos[i], localPath, allFiles, matchingFiles, probe[failAt]))
          /\ log' = Append(log, Step("probe", i, probe[failAt].error = None,
                                     IF probe[failAt].error = None THEN "none" ELSE failAt))
  /\ repoState' = [repoState EXCEPT ![i] = "Analyzed"]
  /\ NextRepo
  /\ UNCHANGED << args, remote, stdout, query, filePatterns, limit, tempDir, disk, repos,
                  reportFile >>

\* main prints analyzer.generateReport().
PrintReport ==
  /\ pc = "report"
  /\ stdout' = Append(stdout, "report")
  /\ pc' = "write"
  /\ UNCHANGED << args, remote, query, filePatterns, limit, tempDir, disk, repos, i,
                  localPath, allFiles, matchingFiles, results, repoState, log, reportFile >>

\* main writes analyzer.generateReport() to the report file and returns.
WriteReport ==
  /\ pc = "write"
  /\ reportFile' = Some(GenerateReport(results))
  /\ pc' = "done"
  /\ UNCHANGED << args, remote, stdout, query, filePatterns, limit, tempDir, disk, repos, i,
                  localPath, allFiles, matchingFiles, results, repoState, log >>

Next ==
  \/ ShowUsage
  \/ StartAnalysis
  \/ SearchFails
  \/ SearchSucceeds
  \/ CloneSucceeds
  \/ CloneFails
  \/ WalkSucceeds
  \/ WalkFails
  \/ MatchFiles
  \/ ProbeAndPush
  \/ PrintReport
  \/ WriteReport

\* ------------------------------------------------------------ initial states

Q_dotfiles == <<"d","o","t","f","i","l","e","s">>
P_zsh == <<"*",".","z","s","h">>
P_bash == <<"*",".","b","a","s","h">>
P_unclosed == <<"*","(">>
T_two == <<"2">>
T_one == <<"1">>
T_abc == <<"a","b","c">>
T_7z == <<"7","z">>

\* The remote repository at position k of the search's answer, a clone of which
\* holds tree. gh prints the owner as an object with a login; the code also takes
\* a plain string, which the even positions carry.
Repo(k, tree) ==
  [raw |-> [name |-> <<"r", DigitChars[k + 1]>>,
            owner |-> IF k % 2 = 1 THEN [login |-> Some(<<"o">>), text |-> None]
                      ELSE [login |-> None, text |-> Some(<<"o">>)],
            url |-> UrlBase \o <<"o", "/", "r", DigitChars[k + 1]>>,
            description |-> IF k % 2 = 1 THEN Some(Q_dotfiles) ELSE None,
            stargazersCount |-> IF k % 2 = 1 THEN Some(k) ELSE None,
            language |-> None],
   tree |-> tree]

\* The answers of a search: up to MaxRepos repositories, each with one of the trees.
Remotes(trees) ==
  UNION {[1..n -> trees] : n \in 0..MaxRepos}

RemoteOf(treeOf) == [k \in DOMAIN treeOf |-> Repo(k, treeOf[k])]

\* The directories of the model's trees: the clone's root, plain and skipped
\* directories, a skipped directory below a plain one, a plain one below a
\* skipped one, and one three levels down.
DirPaths ==
  { <<>>, <<N_src>>, <<N_node_modules>>, <<N_github>>, <<N_dzsh>>,
    <<N_src, N_node_modules>>, <<N_node_modules, N_src>>, <<N_dzsh, N_src, N_src>> }

PathUniverse == {Append(d, FileNames[k]) : d \in DirPaths, k \in DOMAIN FileNames}

\* Every tree of at most MaxFiles files.
RECURSIVE TreesUpTo(_)
TreesUpTo(n) ==
  IF n = 0 THEN {{}}
  ELSE LET smaller == TreesUpTo(n - 1)
       IN smaller \cup {t \cup {p} : t \in smaller, p \in PathUniverse}

AllTrees == TreesUpTo(MaxFiles)

\* Two trees for the runs over several repositories: an empty clone, and one with
\* a file below a directory and a file at the root.
SmallTrees == { {}, {<<N_src, N_azsh>>, <<N_gitignore>>} }

\* The argument lists of the runs over trees and repositories: none, the two globs
\* of the end-to-end scenario, a literal pattern with a glob that new RegExp
\* rejects, and a limit of one repository.
RunArgs ==
  { <<>>,
    <<Q_dotfiles, P_zsh, P_bash>>,
    <<Q_dotfiles, N_src, P_unclosed>>,
    <<Q_dotfiles, P_zsh, S_limit, T_one>> }

\* The argument lists of the runs over every tree.
TreeArgs == { <<>>, <<Q_dotfiles, P_zsh, P_bash>> }

Tokens == {Q_dotfiles, S_limit, S_help, T_two, P_zsh, T_abc, T_7z}

AllArgs == UNION {[1..n -> Tokens] : n \in 0..MaxArgs}

InitRest ==
  /\ pc = "start"
  /\ stdout = <<>>
  /\ query = <<>>
  /\ filePatterns = <<>>
  /\ limit = None
  /\ tempDir = None
  /\ disk = {}
  /\ repos = <<>>
  /\ i = 0
  /\ localPath = <<>>
  /\ allFiles = <<>>
  /\ matchingFiles = <<>>
  /\ results = <<>>
  /\ repoState = <<>>
  /\ log = <<>>
  /\ reportFile = None

\* Runs over several repositories.
Init ==
  /\ args \in RunArgs
  /\ \E treeOf \in Remotes(SmallTrees) : remote = RemoteOf(treeOf)
  /\ InitRest

\* Runs over every tree of one repository.
InitTree ==
  /\ args \in TreeArgs
  /\ \E tree \in AllTrees : remote = <<Repo(1, tree)>>
  /\ InitRest

\* Runs over every argument list.
InitCli ==
  /\ args \in AllArgs
  /\ remote = <<Repo(1, {<<N_azsh>>})>>
  /\ InitRest

Spec == Init /\ [][Next]_vars

SpecTree == InitTree /\ [][Next]_vars

SpecCli == InitCli /\ [][Next]_vars

Positions == {"start", "search", "clone", "walk", "match", "probe", "report", "write", "done"}

\* main moves on: its position or the loop's changes. Every step of Next is such a
\* step, and one is possible wherever main has not returned (NeverStuck).
Advance ==
  /\ pc # "done"
  /\ pc' \in Positions
  /\ i' \in 0..(MaxRepos + 1)
  /\ <<pc', i'>> # <<pc, i>>

NeverStuck == pc # "done" => ENABLED Next

AlwaysAdvances == [][pc # "done" /\ <<pc', i'>> # <<pc, i>>]_vars

\* main is one thread of control and every call it makes returns or throws (the
\* clone is bounded by its timeout): until main returns, it takes its next step.
FairSpec == Init /\ [][Next]_vars /\ WF_<<pc, i>>(Advance)

\* ------------------------------------------------------------------ claims

HasStep(op, k, ok) == \E n \in DOMAIN log : log[n].op = op /\ log[n].repo = k /\ log[n].ok = ok

SearchSucceeded == HasStep("search", 0, TRUE)
SearchFailed == HasStep("search", 0, FALSE)

EndsWith(s, suffix) ==
  /\ Len(suffix) <= Len(s)
  /\ SubSeq(s, Len(s) - Len(suffix) + 1, Len(s)) = suffix

\* A file of a tree lies inside a directory named node_modules or one whose name
\* begins with .git.
InsideSkipped(f) ==
  \E k \in 1..(Len(f) - 1) :
    \/ f[k] = N_node_modules
    \/ (Len(f[k]) >= 4 /\ f[k][1] = "." /\ f[k][2] = "g" /\ f[k][3] = "i" /\ f[k][4] = "t")

\* C9: after a walk of a clone that returned, the walker's result holds no path
\* inside a directory named node_modules or one whose name begins with .git, at
\* any depth, and holds every other file of the clone, each once.
C9_WalkerSkipsAndCovers ==
  pc = "match" =>
    LET tree == TreeAt(localPath)
        kept == {f \in tree : ~InsideSkipped(f)}
    IN /\ {allFiles[k] : k \in DOMAIN allFiles} = {DirString(localPath, f) : f \in kept}
       /\ Len(allFiles) = Cardinality(kept)

\* A walk of a clone that holds a file below a skipped directory of a plain
\* directory and a file named .gitignore, which the walker returns.
C9_Witness ==
  /\ pc = "match"
  /\ \E f \in TreeAt(localPath) : Len(f) = 3 /\ f[1] = N_src /\ f[2] = N_node_modules
  /\ allFiles = <<PathJoin(localPath, N_gitignore)>>

ZshBash == <<P_zsh, P_bash>>

\* The absolute path of a result's file.
AbsoluteOf(r, m) == PathJoin(r.localPath, m)

\* s holds, ignoring case, some character followed by word.
HasCharThen(s, word) ==
  \E k \in 2..(Len(s) - Len(word) + 1) :
    ToLowerCase(SubSeq(s, k, k + Len(word) - 1)) = word

\* C7, as claimed: with the patterns *.zsh and *.bash every matching file's base
\* name ends in .zsh or .bash.
C7_OnlySuffixedBaseNames ==
  filePatterns = ZshBash =>
    \A n \in DOMAIN results : \A k \in DOMAIN results[n].matchingFiles :
      LET base == Basename(results[n].matchingFiles[k])
      IN \/ EndsWith(base, <<".","z","s","h">>)
         \/ EndsWith(base, <<".","b","a","s","h">>)

\* C7, amended: with the patterns *.zsh and *.bash every matching file's base
\* name, or the fragment of the last three segments of its absolute path, holds,
\* ignoring case, some character followed by zsh or by bash.
C7_OnlyKeysHoldingTheWord ==
  filePatterns = ZshBash =>
    \A n \in DOMAIN results : \A k \in DOMAIN results[n].matchingFiles :
      LET file == AbsoluteOf(results[n], results[n].matchingFiles[k])
          parts == Split(file)
          fragment == Join(SubSeq(parts, Len(parts) - 2, Len(parts)))
      IN \E key \in {parts[Len(parts)], fragment} :
           \/ HasCharThen(key, <<"z","s","h">>)
           \/ HasCharThen(key, <<"b","a","s","h">>)

\* A result whose only matching file matches only by the directory d.zsh above
\* it, beside a file that does not match.
C7_Witness ==
  /\ filePatterns = ZshBash
  /\ \E n \in DOMAIN results :
       /\ Len(results[n].files) = 2
       /\ results[n].matchingFiles = <<N_dzsh \o <<"/">> \o N_gitignore>>

\* C2: in every result, every path of matchingFiles is a path of files.
C2_MatchingSubsetOfFiles ==
  \A n \in DOMAIN results :
    \A k \in DOMAIN results[n].matchingFiles :
      \E j \in DOMAIN results[n].files :
        results[n].files[j] = results[n].matchingFiles[k]

\* A result with a matching file and a file that does not match.
C2_Witness ==
  \E n \in DOMAIN results :
    /\ Len(results[n].matchingFiles) = 1
    /\ Len(results[n].files) = 2

\* The probes of the log, in order: the n-th one made the analysis of results[n].
ProbeSteps == SelectSeq(log, LAMBDA e : e.op = "probe")

\* The kinds of the report's lines for the entry at position n.
EntryKinds(report, n) ==
  LET lines == SelectSeq(report, LAMBDA l : l.entry = n)
  IN [k \in DOMAIN lines |-> lines[k].kind]

OnlyErrorLine == <<"heading", "description", "stars", "url", "error">>

\* The sum of the counts of a file-type histogram.
CountSum(hist) ==
  LET RECURSIVE Go(_)
      Go(k) == IF k > Len(hist) THEN 0 ELSE hist[k].count + Go(k + 1)
  IN Go(1)

\* C6, as claimed: an analysis whose error field is set has totalFiles 0 and no
\* fileTypes, and the report holds only the error line for its entry.
C6_ErrorLeavesDefaults ==
  \A n \in DOMAIN results :
    results[n].analysis.error # None =>
      /\ results[n].analysis.totalFiles = 0
      /\ results[n].analysis.fileTypes = <<>>
      /\ reportFile # None => EntryKinds(reportFile[1], n) = OnlyErrorLine

\* C6, amended: an analysis whose probe threw has its error field set and the
\* report holds only the error line for its entry; totalFiles and fileTypes are at
\* their defaults when the probe's tree walk threw, and hold the count and the
\* histogram of the walked files when a later call threw.
C6_ErrorRendersAlone ==
  \A n \in DOMAIN results :
    /\ ProbeSteps[n].ok <=> results[n].analysis.error = None
    /\ results[n].analysis.error # None =>
         /\ ProbeSteps[n].at = "walk" =>
              /\ results[n].analysis.totalFiles = 0
              /\ results[n].analysis.fileTypes = <<>>
         /\ ProbeSteps[n].at \in {"stat", "readdir"} =>
              /\ results[n].analysis.totalFiles = Len(results[n].files)
              /\ CountSum(results[n].analysis.fileTypes) = Len(results[n].files)
         /\ reportFile # None => EntryKinds(reportFile[1], n) = OnlyErrorLine

\* A written report over a result whose probe threw at the statSync of a matching
\* file, after it had counted two files.
C6_Witness ==
  /\ reportFile # None
  /\ \E n \in DOMAIN results :
       /\ results[n].analysis.error # None
       /\ ProbeSteps[n].at = "stat"
       /\ results[n].analysis.totalFiles = 2

Printed(what) == \E n \in DOMAIN stdout : stdout[n] = what

\* analyzeRepositories has returned.
Returned == pc \in {"report", "write", "done"} /\ SearchSucceeded

\* The positions of repos for which the step op returned, in order.
PositionsWith(op) ==
  SelectSeq([k \in DOMAIN repos |-> k], LAMBDA k : HasStep(op, k, TRUE))

\* The repositories of the results, in order.
ResultRepos == [n \in DOMAIN results |-> results[n].repo]

\* C1, as claimed: once the search has succeeded the call returns normally, and
\* the results are those of the repositories whose clone and tree walk succeeded,
\* one each, in the search's order.
C1_OneResultPerWalkedRepo ==
  /\ SearchSucceeded => ~Printed("failed")
  /\ Returned =>
       LET walked == PositionsWith("walk")
       IN ResultRepos = [n \in DOMAIN walked |-> repos[walked[n]]]

\* C1, amended: once the search has succeeded the call returns normally, and the
\* results are those of the repositories whose clone, tree walk and match
\* succeeded, one each, in the search's order.
C1_OneResultPerMatchedRepo ==
  /\ SearchSucceeded => ~Printed("failed")
  /\ Returned =>
       LET matched == PositionsWith("match")
       IN /\ ResultRepos = [n \in DOMAIN matched |-> repos[matched[n]]]
          /\ \A n \in DOMAIN matched :
               HasStep("clone", matched[n], TRUE) /\ HasStep("walk", matched[n], TRUE)

\* A finished run over two repositories: the first one's match threw after its
\* clone and walk, and the second one has the only result.
C1_Witness ==
  /\ pc = "done"
  /\ Len(repos) = 2
  /\ HasStep("walk", 1, TRUE)
  /\ HasStep("match", 1, FALSE)
  /\ ResultRepos = <<repos[2]>>

Allowed(from, to) ==
  \/ from = to
  \/ <<from, to>> \in { <<"Pending", "Cloned">>, <<"Cloned", "Walked">>,
                        <<"Walked", "Analyzed">>, <<"Pending", "Failed">>,
                        <<"Cloned", "Failed">>, <<"Walked", "Failed">> }

Finished(k) == k \in DOMAIN repoState /\ repoState[k] \in {"Analyzed", "Failed"}

\* No repository has left Pending before every one ahead of it was Analyzed or
\* Failed, and one whose clone failed was never walked, matched or probed.
OneAtATime ==
  /\ \A k \in DOMAIN repoState : \A j \in DOMAIN repoState :
       (k < j /\ repoState[j] # "Pending") => Finished(k)
  /\ \A k \in DOMAIN repoState :
       HasStep("clone", k, FALSE) =>
         \A n \in DOMAIN log : log[n].repo = k => log[n].op = "clone"
  /\ \A n \in DOMAIN log : \A m \in DOMAIN log :
       (n < m /\ log[n].repo > 0) => log[n].repo <= log[m].repo

\* C10: every repository moves Pending, Cloned, Walked, Analyzed, or to Failed
\* from one of the first three; they are taken one at a time in the search's
\* order; a failed clone is never walked, matched or probed; and every
\* repository the search returned is in the end Analyzed or Failed.
C10_SequentialPipeline ==
  /\ []OneAtATime
  /\ [][\A k \in DOMAIN repoState :
          k \in DOMAIN repoState' /\ Allowed(repoState[k], repoState'[k])]_vars
  /\ \A k \in 1..MaxRepos : (k \in DOMAIN repoState) ~> Finished(k)

\* A finished run over two repositories: the first one's clone failed, the
\* second one was analyzed.
C10_Witness ==
  /\ pc = "done"
  /\ repoState = <<"Failed", "Analyzed">>
  /\ HasStep("clone", 1, FALSE)

\* C8: with no argument, or with --help among the arguments, main only prints the
\* usage text: no analyzer is constructed and no command is run.
C8_HelpDoesNothingElse ==
  (args = <<>> \/ \E k \in DOMAIN args : args[k] = S_help) =>
    /\ pc \in {"start", "done"}
    /\ pc = "done" => stdout = <<"usage">>
    /\ tempDir = None
    /\ log = <<>>
    /\ disk = {}
    /\ reportFile = None

\* main has returned from arguments that hold a query and patterns before --help.
C8_Witness ==
  /\ pc = "done"
  /\ Len(args) = 3
  /\ args[1] = Q_dotfiles
  /\ args[2] = P_zsh
  /\ args[3] = S_help
  /\ stdout = <<"usage">>

\* A token that is a number: digits only.
IsNumber(token) == Len(token) > 0 /\ \A k \in DOMAIN token : token[k] \in
  {"0", "1", "2", "3", "4", "5", "6", "7", "8", "9"}

\* C4, as claimed: when the token after --limit is not a number, the limit that
\* main passes on is 10.
C4_NonNumericLimitIsDefault ==
  (/\ pc \notin {"start", "done"}
   /\ \E k \in 1..(Len(args) - 1) :
        /\ args[k] = S_limit
        /\ \A j \in 1..(k - 1) : args[j] # S_limit
        /\ ~IsNumber(args[k + 1]))
  => limit = Some(DefaultLimit)

\* The arguments after the first without the --limit tokens and without the
\* numbers that follow a --limit token.
PatternsClaimed(argv) ==
  LET RECURSIVE Go(_)
      Go(k) == IF k > Len(argv) THEN <<>>
               ELSE IF argv[k] = S_limit \/ (argv[k - 1] = S_limit /\ IsNumber(argv[k]))
               THEN Go(k + 1)
               ELSE <<argv[k]>> \o Go(k + 1)
  IN Go(2)

\* C5, as claimed: the file patterns are the arguments after the first, in order,
\* without --limit and the number that follows it; every other argument is kept.
C5_OnlyLimitAndItsNumberRemoved ==
  pc \notin {"start", "done"} => filePatterns = PatternsClaimed(args)

====
